---- MODULE Spec2Model ----
(***************************************************************************)
(* Arduino ACPI automation (ArduinoAutomation1.1.ino): the sampling loop,  *)
(* the power-check protocol of systemOn/systemOff and the serial commands. *)
(*                                                                         *)
(* One pass of loop() is two steps: checkSerialInput (position "input")    *)
(* and the reading with its classification (position "sample").  The       *)
(* blocking delay() calls inside systemOff and powerToggle are positions   *)
(* of their own ("countdown", "pulse", "manual"): the handler resumes      *)
(* after the wait, and nothing else of the program runs meanwhile.  So     *)
(* are the two prompts of "new" ("menu", "askdelay"), where                *)
(* checkSerialInput waits for the next line.                               *)
(***************************************************************************)
EXTENDS Integers, Sequences, FiniteSets, TLC

VARIABLES in, inCount, cycle, delayTime, state, attemptOn, paused,
          powerStates, powerCheck, pc, waitMs, serial, out, hist

vars == <<in, inCount, cycle, delayTime, state, attemptOn, paused,
          powerStates, powerCheck, pc, waitMs, serial, out, hist>>

(***************************************************************************)
(* Bounds of the model.                                                    *)
(***************************************************************************)
MaxCycle == 2
MaxPowerCheck == 4

(***************************************************************************)
(* Program constants.                                                      *)
(***************************************************************************)
pwrThreshold == 100
InitLast == 999
DelayS5 == 30000
DelayManual == 60000
DelayCombination == 75000
Overhead == 2000
PulseMs == 1000
SettleMs == 4800
Half == 65536
LongMax == 2147483647

(***************************************************************************)
(* Text: a line is a sequence of one-character strings.                    *)
(***************************************************************************)
Upper == <<"A","B","C","D","E","F","G","H","I","J","K","L","M",
           "N","O","P","Q","R","S","T","U","V","W","X","Y","Z">>
Lower == <<"a","b","c","d","e","f","g","h","i","j","k","l","m",
           "n","o","p","q","r","s","t","u","v","w","x","y","z">>
Digits == <<"0","1","2","3","4","5","6","7","8","9">>

toLowerChar(c) ==
    IF \E i \in 1..26 : Upper[i] = c
    THEN Lower[CHOOSE i \in 1..26 : Upper[i] = c]
    ELSE c

toLowerCase(s) == [i \in 1..Len(s) |-> toLowerChar(s[i])]

IsDigit(c) == \E i \in 1..10 : Digits[i] = c
DigitVal(c) == (CHOOSE i \in 1..10 : Digits[i] = c) - 1
\* the white space of isspace(): the vertical tab is written as its character
VT == ""
IsSpace(c) == c \in {" ", "\t", "\n", VT, "\f", "\r"}

\* A long has 32 bits; Half is 2^16.  Signed32 is the long whose upper and
\* lower 16 bits are hi and lo.
Signed32(hi, lo) == IF hi >= Half \div 2 THEN (hi - Half) * Half + lo ELSE hi * Half + lo

\* n * k in long arithmetic (the product wraps), for 0 <= k <= 1000
MulWrap(n, k) ==
    LET p == (n % Half) * k
    IN Signed32(((n \div Half) * k + p \div Half) % Half, p % Half)

\* n + d in long arithmetic, for 0 <= d <= 9
AddWrap(n, d) ==
    IF n > 2147483647 - d
    THEN ((n - 2147483647) + (d - 2147483647)) - 2
    ELSE n + d

\* 0 - n in long arithmetic
NegWrap(n) == IF n = -2147483647 - 1 THEN n ELSE 0 - n

\* the unsigned long a long converts to, as its upper and lower 16 bits
ULong(n) == [hi |-> (n \div Half) % Half, lo |-> n % Half]

RECURSIVE ParseDigits(_, _, _)
ParseDigits(s, i, acc) ==
    IF i <= Len(s) /\ IsDigit(s[i])
    THEN ParseDigits(s, i + 1, AddWrap(MulWrap(acc, 10), DigitVal(s[i])))
    ELSE acc

RECURSIVE SkipSpace(_, _)
SkipSpace(s, i) == IF i <= Len(s) /\ IsSpace(s[i]) THEN SkipSpace(s, i + 1) ELSE i

\* String::toInt is atol: blanks, an optional sign, then the leading digits
toInt(s) ==
    LET i == SkipSpace(s, 1) IN
    IF i <= Len(s) /\ s[i] = "-" THEN NegWrap(ParseDigits(s, i + 1, 0))
    ELSE IF i <= Len(s) /\ s[i] = "+" THEN ParseDigits(s, i + 1, 0)
    ELSE ParseDigits(s, i, 0)

LinePause == <<"p","a","u","s","e">>
LineResume == <<"r","e","s","u","m","e">>
LineNew == <<"n","e","w">>
LineStop == <<"s","t","o","p">>
LineToggle == <<"t","o","g","g","l","e">>
LineDebug == <<"d","e","b","u","g">>

(***************************************************************************)
(* What the environment supplies.                                          *)
(***************************************************************************)
Readings == {0, 1023}
Lines == {LinePause, LineResume, LineNew, LineStop, LineToggle, LineDebug,
          <<"S","t","o","p">>, <<"h","e","l","p">>}
ChoiceLines == {<<"1">>, <<"2">>, <<"3">>, <<"4">>, <<"5">>}
DelayLines == {<<"0">>, <<"1">>, <<"4","5">>, <<"-","5">>, <<"a","b">>, <<>>,
               <<VT,"5">>, <<"5","3","6","8","7","0","9","1","2">>}

(***************************************************************************)
(* Notifications written to the serial port.                               *)
(***************************************************************************)
MsgOn == "System is on"
MsgOff == "System is off"
MsgCycle == "Cycle Start"
MsgSpurious == "ERROR System powered on before Arduino power on"
MsgFailed == "ERROR System did not power on properly"
MsgPowerOnIn == "Power On in N seconds"
MsgToggle == "Attempting power toggle"
MsgPaused == "Testing has been paused"
MsgResuming == "Testing is resuming"
MsgMenu == "Please choose what test you want to run"
MsgBadChoice == "Please input a proper choice"
MsgAskDelay == "Please input the delay you want (cannot be 0)"
MsgCommencing == "Commencing Test"
MsgStopping == "Stopping test"
MsgDebug == "DEBUG"

Said(m) == \E i \in 1..Len(out) : out[i] = m
Count(m) == Cardinality({i \in 1..Len(out) : out[i] = m})

(***************************************************************************)
(* Sampler and PowerHistory.                                               *)
(***************************************************************************)
\* the average taken with the initial last element instead of the fifth reading
AvgStale(a) == (a[0] + a[1] + a[2] + a[3] + InitLast) \div 5

\* avg = (in[0] + in[1] + in[2] + in[3] + in[4]) / 5, on ints
Avg(a) == (a[0] + a[1] + a[2] + a[3] + a[4]) \div 5

updatePowerStates(ps, on) == [i \in 0..2 |-> IF i = 0 THEN on ELSE ps[i - 1]]

Running == ~(state = "None" \/ state = "Paused")

(***************************************************************************)
(* systemOn, with ps the power states after updatePowerStates.             *)
(***************************************************************************)
\* no on observation taken for an error
OnSpuriousNever(ps, step) == FALSE

\* the test of line 119 on the power states after the push, which compares
\* the two states before the current one instead
OnSpuriousPrior(ps, step) == step + 1 = 2 /\ (ps[1] \/ ps[2])

\* the "powered on before Arduino power on" test, on the incremented counter
OnSpurious(ps, step) == step + 1 = 2 /\ (ps[0] \/ ps[1])

OnSteps(ps, step) ==
    IF step > 0
    THEN IF OnSpurious(ps, step) THEN 0 ELSE step + 1
    ELSE step

\* every on observation counted as a cycle
CycleCountsAll(a, c) == c + 1

\* "Check if the system powered on after attempting to turn it on"
CycleAfterOn(a, c) == IF a THEN c + 1 ELSE c

systemOn(ps) ==
    /\ attemptOn => cycle < MaxCycle
    /\ OnSteps(ps, powerCheck) <= MaxPowerCheck
    /\ out' = (IF ~ps[1] THEN <<MsgOn>> ELSE <<>>)
              \o (IF attemptOn THEN <<MsgCycle>> ELSE <<>>)
              \o (IF powerCheck > 0 /\ OnSpurious(ps, powerCheck) THEN <<MsgSpurious>> ELSE <<>>)
    /\ attemptOn' = FALSE
    /\ cycle' = CycleAfterOn(attemptOn, cycle)
    /\ powerCheck' = OnSteps(ps, powerCheck)
    /\ inCount' = 0
    /\ pc' = "input"
    /\ waitMs' = ULong(0)

(***************************************************************************)
(* systemOff up to its first blocking call or its return.                  *)
(***************************************************************************)
\* systemOff going on although no test runs
OffProceedsAlways == TRUE

\* "If there is a test or the system is not paused"
OffProceeds == Running

\* a toggle due one check early
ToggleDueEarly(step) == step = 1

\* "Check to see if the power is off a total of 3 times before powering on"
ToggleDue(step) == step = 2

\* attemptOn left as it was
AttemptKept(a) == a

\* attemptOn after the "did not power on properly" check
AttemptChecked(a) == IF a THEN FALSE ELSE a

systemOff(ps) ==
    LET said == (IF ps[1] THEN <<MsgOff>> ELSE <<>>)
                \o (IF attemptOn THEN <<MsgFailed>> ELSE <<>>)
    IN
    /\ attemptOn' = AttemptChecked(attemptOn)
    /\ cycle' = cycle
    /\ IF OffProceeds
       THEN IF ToggleDue(powerCheck)
            THEN \* powerToggle(): pulse and settle
                 /\ out' = said \o <<MsgToggle>>
                 /\ pc' = "pulse"
                 /\ waitMs' = ULong(PulseMs + SettleMs)
                 /\ UNCHANGED <<powerCheck, inCount>>
            ELSE IF powerCheck = 0
                 THEN \* delay(delayTime - 2000), an unsigned long
                      /\ out' = said \o <<MsgPowerOnIn>>
                      /\ pc' = "countdown"
                      /\ waitMs' = ULong(delayTime - Overhead)
                      /\ UNCHANGED <<powerCheck, inCount>>
                 ELSE /\ powerCheck + 1 <= MaxPowerCheck
                      /\ out' = said
                      /\ powerCheck' = powerCheck + 1
                      /\ inCount' = 0
                      /\ pc' = "input"
                      /\ waitMs' = ULong(0)
       ELSE /\ out' = said
            /\ inCount' = 0
            /\ pc' = "input"
            /\ waitMs' = ULong(0)
            /\ UNCHANGED powerCheck

\* systemOff after delay(delayTime - 2000) returns, then the end of loop()
CountdownDone ==
    /\ pc = "countdown"
    /\ powerCheck' = powerCheck + 1
    /\ inCount' = 0
    /\ pc' = "input"
    /\ waitMs' = ULong(0)
    /\ out' = <<>>
    /\ UNCHANGED <<in, cycle, delayTime, state, attemptOn, paused, powerStates, serial>>

\* the counter left as it was after the toggle
ToggledPowerCheckKept == powerCheck

\* the counter going on after the toggle
ToggledPowerCheckNext == powerCheck + 1

\* powerCheck = 0 after powerToggle()
ToggledPowerCheck == 0

\* systemOff after powerToggle() returns, then the end of loop()
PulseDone ==
    /\ pc = "pulse"
    /\ powerCheck' = ToggledPowerCheck
    /\ attemptOn' = TRUE
    /\ inCount' = 0
    /\ pc' = "input"
    /\ waitMs' = ULong(0)
    /\ out' = <<>>
    /\ UNCHANGED <<in, cycle, delayTime, state, paused, powerStates, serial>>

(***************************************************************************)
(* loop() from analogRead to its end.                                      *)
(***************************************************************************)
Sample(r) ==
    /\ pc = "sample"
    /\ in' = [in EXCEPT ![inCount] = r]
    /\ IF inCount = 4
       THEN LET ps == updatePowerStates(powerStates, Avg(in') < pwrThreshold) IN
            /\ powerStates' = ps
            /\ IF ps[0] THEN systemOn(ps) ELSE systemOff(ps)
       ELSE /\ inCount' = inCount + 1
            /\ pc' = "input"
            /\ out' = <<>>
            /\ UNCHANGED <<powerStates, attemptOn, cycle, powerCheck, waitMs>>
    /\ UNCHANGED <<delayTime, state, paused, serial>>

(***************************************************************************)
(* checkSerialInput.  The serial port holds whole lines; readSerialInput   *)
(* takes the first one.  cmd is that line lower-cased, rest the lines      *)
(* left on the port.                                                       *)
(***************************************************************************)
Idle == <<in, inCount, cycle, delayTime, state, attemptOn, paused,
          powerStates, powerCheck, waitMs>>

NoInput ==
    /\ pc = "input"
    /\ serial = <<>>
    /\ out' = <<>>
    /\ pc' = "sample"
    /\ UNCHANGED <<Idle, serial>>

CmdPause(cmd, rest) ==
    /\ pc = "input"
    /\ cmd = LinePause
    /\ paused' = TRUE
    /\ out' = <<MsgPaused>>
    /\ serial' = rest
    /\ pc' = "sample"
    /\ UNCHANGED <<in, inCount, cycle, delayTime, state, attemptOn,
                   powerStates, powerCheck, waitMs>>

CmdResume(cmd, rest) ==
    /\ pc = "input"
    /\ cmd = LineResume
    /\ paused' = FALSE
    /\ out' = <<MsgResuming>>
    /\ serial' = rest
    /\ pc' = "sample"
    /\ UNCHANGED <<in, inCount, cycle, delayTime, state, attemptOn,
                   powerStates, powerCheck, waitMs>>

CmdStop(cmd, rest) ==
    /\ pc = "input"
    /\ cmd = LineStop
    /\ state' = "None"
    /\ out' = <<MsgStopping>>
    /\ serial' = rest
    /\ pc' = "sample"
    /\ UNCHANGED <<in, inCount, cycle, delayTime, attemptOn, paused,
                   powerStates, powerCheck, waitMs>>

\* powerToggle() called from checkSerialInput: pulse and settle
CmdToggle(cmd, rest) ==
    /\ pc = "input"
    /\ cmd = LineToggle
    /\ out' = <<MsgToggle>>
    /\ serial' = rest
    /\ pc' = "manual"
    /\ waitMs' = ULong(PulseMs + SettleMs)
    /\ UNCHANGED <<in, inCount, cycle, delayTime, state, attemptOn, paused,
                   powerStates, powerCheck>>

\* checkSerialInput after powerToggle() returns
ManualDone ==
    /\ pc = "manual"
    /\ pc' = "sample"
    /\ waitMs' = ULong(0)
    /\ out' = <<>>
    /\ UNCHANGED <<in, inCount, cycle, delayTime, state, attemptOn, paused,
                   powerStates, powerCheck, serial>>

CmdDebug(cmd, rest) ==
    /\ pc = "input"
    /\ cmd = LineDebug
    /\ out' = <<MsgDebug>>
    /\ serial' = rest
    /\ pc' = "sample"
    /\ UNCHANGED Idle

CmdOther(cmd, rest) ==
    /\ pc = "input"
    /\ cmd \notin {LinePause, LineResume, LineNew, LineStop, LineToggle, LineDebug}
    /\ out' = <<>>
    /\ serial' = rest
    /\ pc' = "sample"
    /\ UNCHANGED Idle

(***************************************************************************)
(* The "new" command.  checkSerialInput prints the menu and waits for the  *)
(* next line (position "menu"); with the choice 4 it then waits for the    *)
(* delay (position "askdelay").  No reading is taken while it waits.       *)
(***************************************************************************)
ValidChoice(l) == l = <<"1">> \/ l = <<"2">> \/ l = <<"3">> \/ l = <<"4">>

InPrompt == pc \in {"menu", "askdelay"}

\* delayTime = serialInput.toInt(); delayTime *= 1000;
CustomDelay(l) == MulWrap(toInt(l), 1000)

\* the product leaves the range of a long: undefined behaviour
DelayOverflows(l) ==
    toInt(l) > LongMax \div 1000 \/ toInt(l) < -(LongMax \div 1000)

\* while (delayTime == 0) ends.  Where the product overflows, a build tests
\* the wrapped product or, the product of a number other than 0 taken for
\* other than 0, the number itself (byNumber).
DelayAccepted(l, byNumber) ==
    IF DelayOverflows(l) /\ byNumber
    THEN ~(toInt(l) = 0)
    ELSE ~(CustomDelay(l) = 0)

\* delayTime after the choice; the Custom prompt starts from 0
NewDelay(choice) ==
    IF choice = <<"1">> THEN DelayS5
    ELSE IF choice = <<"2">> THEN DelayManual
    ELSE IF choice = <<"3">> THEN DelayCombination
    ELSE 0

NewState(choice) ==
    IF choice = <<"1">> THEN "S5"
    ELSE IF choice = <<"2">> THEN "Manual S3/S4"
    ELSE IF choice = <<"3">> THEN "Combination"
    ELSE "Custom"

\* powerCheck kept over the command
NewPowerCheckKept == powerCheck

\* inCount kept over the command
NewInCountKept == inCount

\* "Reset all variables": powerCheck is reset, attemptOn is not assigned
NewInCount == 0
NewPowerCheck == 0
NewAttemptOn == attemptOn

\* the line "new" is read and the menu printed
CmdNew(cmd, rest) ==
    /\ pc = "input"
    /\ cmd = LineNew
    /\ out' = <<MsgMenu>>
    /\ serial' = rest
    /\ pc' = "menu"
    /\ UNCHANGED Idle

NewReset ==
    /\ in' = [i \in 0..4 |-> IF i = 4 THEN InitLast ELSE 0]
    /\ cycle' = 1
    /\ inCount' = NewInCount
    /\ paused' = FALSE
    /\ powerStates' = [i \in 0..2 |-> FALSE]
    /\ powerCheck' = NewPowerCheck
    /\ attemptOn' = NewAttemptOn

\* a line answers the menu
MenuAnswer(line, rest) ==
    /\ pc = "menu"
    /\ serial' = rest
    /\ IF ValidChoice(line)
       THEN /\ NewReset
            /\ delayTime' = NewDelay(line)
            /\ IF line = <<"4">>
               THEN /\ out' = <<MsgAskDelay>>
                    /\ pc' = "askdelay"
                    /\ UNCHANGED state
               ELSE /\ state' = NewState(line)
                    /\ out' = <<MsgCommencing, MsgCycle>>
                    /\ pc' = "sample"
            /\ UNCHANGED waitMs
       ELSE /\ out' = <<MsgBadChoice, MsgMenu>>
            /\ pc' = "menu"
            /\ UNCHANGED Idle

\* a line answers the Custom delay prompt
DelayAnswer(line, rest) ==
    /\ pc = "askdelay"
    /\ serial' = rest
    /\ delayTime' = CustomDelay(line)
    /\ \E byNumber \in BOOLEAN :
          IF DelayAccepted(line, byNumber)
          THEN /\ state' = NewState(<<"4">>)
               /\ out' = <<MsgCommencing, MsgCycle>>
               /\ pc' = "sample"
          ELSE /\ out' = <<MsgAskDelay>>
               /\ pc' = "askdelay"
               /\ UNCHANGED state
    /\ UNCHANGED <<in, inCount, cycle, attemptOn, paused, powerStates,
                   powerCheck, waitMs>>

\* the menu answered with "1"
ChoiceS5 == {<<"1">>}

\* checkSerialInput on the first line of buf: a command, or the answer to
\* the prompt it waits in
Dispatch(buf) ==
    LET line == Head(buf)
        cmd == toLowerCase(line)
        rest == Tail(buf)
    IN \/ CmdPause(cmd, rest)
       \/ CmdResume(cmd, rest)
       \/ CmdNew(cmd, rest)
       \/ MenuAnswer(line, rest)
       \/ DelayAnswer(line, rest)
       \/ CmdStop(cmd, rest)
       \/ CmdToggle(cmd, rest)
       \/ CmdDebug(cmd, rest)
       \/ CmdOther(cmd, rest)

(***************************************************************************)
(* The program.  hist is a history variable: the program never reads it,   *)
(* and a specification that records nothing leaves it alone.               *)
(***************************************************************************)
Start ==
    /\ in = [i \in 0..4 |-> IF i = 4 THEN InitLast ELSE 0]
    /\ inCount = 0
    /\ cycle = 1
    /\ delayTime = 0
    /\ state = "None"
    /\ attemptOn = FALSE
    /\ paused = FALSE
    /\ powerStates = [i \in 0..2 |-> FALSE]
    /\ powerCheck = 0
    /\ pc = "input"
    /\ waitMs = ULong(0)
    /\ serial = <<>>
    /\ out = <<>>

\* a line the user types is read by the next checkSerialInput
Poll(lineSet, choiceSet, delaySet) ==
    /\ serial = <<>>
    /\ \E line \in (IF pc = "menu" THEN choiceSet
                    ELSE IF pc = "askdelay" THEN delaySet
                    ELSE lineSet) : Dispatch(<<line>>)

\* the LED level holds during the five readings of a window
Steady(r) == inCount > 0 => r = in[inCount - 1]

Reading == \E r \in Readings : Sample(r)

SteadyReading == \E r \in Readings : Steady(r) /\ Sample(r)

Init == Start /\ hist = <<>>

Next ==
    \/ NoInput /\ UNCHANGED hist
    \/ Poll(Lines, ChoiceS5, {}) /\ UNCHANGED hist
    \/ Reading /\ UNCHANGED hist
    \/ CountdownDone /\ UNCHANGED hist
    \/ PulseDone /\ UNCHANGED hist
    \/ ManualDone /\ UNCHANGED hist

Spec == Init /\ [][Next]_vars

(***************************************************************************)
(* Steps of the program that properties speak about.                       *)
(***************************************************************************)
\* the step takes the fifth reading of a window and classifies it
Observes == pc = "sample" /\ inCount = 4
OnObserved == Observes /\ powerStates'[0]
OffObserved == Observes /\ ~powerStates'[0]
\* the state right after a "new" command
JustNew == pc = "sample" /\ Said(MsgCommencing)
\* the state right after a classification that needed no wait
JustObserved == pc = "input" /\ inCount = 0

(***************************************************************************)
(* C1: while a Running session is paused, a debounced observation is       *)
(* only pushed into the power states: it starts no toggle and no           *)
(* countdown, prints nothing and leaves powerCheck, attemptOn and cycle.   *)
(***************************************************************************)
C1_PausedObservationInert ==
    [][(paused /\ Running /\ Observes) =>
          /\ powerStates' = updatePowerStates(powerStates, Avg(in') < pwrThreshold)
          /\ pc' = "input" /\ out' = <<>>
          /\ powerCheck' = powerCheck /\ attemptOn' = attemptOn /\ cycle' = cycle]_vars

(***************************************************************************)
(* C2: right after "new", powerCheck = 0, attemptOn is false, the three    *)
(* power states are false, inCount = 0 and cycle = 1.                      *)
(***************************************************************************)
C2_NewResetsProtocol ==
    JustNew =>
        /\ powerCheck = 0 /\ ~attemptOn
        /\ \A i \in 0..2 : ~powerStates[i]
        /\ inCount = 0 /\ cycle = 1

(***************************************************************************)
(* C3: while no test runs (after "stop", until "new") no observation       *)
(* makes systemOff toggle; the only toggle is that of the "toggle"         *)
(* command.                                                                *)
(***************************************************************************)
C3_StoppedNeverToggles ==
    [][state = "None" => (pc' # "pulse" /\ (Said(MsgToggle)' => pc' = "manual"))]_vars

\* stopped with a toggle due (powerCheck = 2), and an off observation has
\* since been classified
C3_Witness ==
    state = "None" /\ powerCheck = 2 /\ JustObserved /\ ~powerStates[0]

(***************************************************************************)
(* C5: powerCheck is 0, 1 or 2 in every reachable state.                   *)
(***************************************************************************)
C5_PowerCheckRange == powerCheck \in 0..2

(***************************************************************************)
(* C8 as claimed: an on observation with powerCheck = 1 reports the        *)
(* error and resets powerCheck exactly if one of the two states before     *)
(* it was on; otherwise powerCheck becomes 2 without an error.             *)
(***************************************************************************)
C8_SpuriousIffPriorOn ==
    [][(OnObserved /\ powerCheck = 1) =>
          IF powerStates[0] \/ powerStates[1]
          THEN Said(MsgSpurious)' /\ powerCheck' = 0
          ELSE ~Said(MsgSpurious)' /\ powerCheck' = 2]_vars

(***************************************************************************)
(* C8 amended: an on observation with powerCheck = 1 always reports the    *)
(* error and resets powerCheck to 0, whatever the two states before it.    *)
(***************************************************************************)
C8_SpuriousAtStepOne ==
    [][(OnObserved /\ powerCheck = 1) => (Said(MsgSpurious)' /\ powerCheck' = 0)]_vars

\* the error was reported although both states before the on observation
\* were off
C8_Witness ==
    /\ JustObserved /\ Said(MsgSpurious) /\ powerCheck = 0
    /\ powerStates[0] /\ ~powerStates[1] /\ ~powerStates[2]

(***************************************************************************)
(* C9: in a Running session every on observation that finds a power        *)
(* check in progress (powerCheck > 0) reports the "powered on before       *)
(* Arduino power on" error.                                                *)
(***************************************************************************)
C9_OnDuringCheckReports ==
    [][(Running /\ OnObserved /\ powerCheck > 0) => Said(MsgSpurious)']_vars

(***************************************************************************)
(* SpecNew: the prompts of "new" with every answer of ChoiceLines and      *)
(* DelayLines.  The user types "new" and "stop" only and the LED reads     *)
(* off.                                                                    *)
(***************************************************************************)
OffReading == Sample(1023)

NextNew ==
    \/ NoInput /\ UNCHANGED hist
    \/ Poll({LineNew, LineStop}, ChoiceLines, DelayLines) /\ UNCHANGED hist
    \/ OffReading /\ UNCHANGED hist
    \/ CountdownDone /\ UNCHANGED hist
    \/ PulseDone /\ UNCHANGED hist

SpecNew == Init /\ [][NextNew]_vars

(***************************************************************************)
(* C6: whenever a test runs, delayTime > 0 (the Custom prompt takes        *)
(* strictly positive delays only).                                         *)
(***************************************************************************)
C6_DelayPositive == state # "None" => delayTime > 0

(***************************************************************************)
(* SpecC4 records, since the last "new": the number of off observations    *)
(* classified (offs, counted up to 4) and the powerCheck a stopped         *)
(* session had left when that "new" came (left, -1 if no test was          *)
(* stopped).                                                               *)
(***************************************************************************)
InitC4 == Start /\ hist = [offs |-> 0, left |-> -1]

NextC4 ==
    \/ NoInput /\ UNCHANGED hist
    \/ /\ Poll(Lines, ChoiceS5, {})
       /\ hist' = IF Said(MsgCommencing)'
                  THEN [offs |-> 0, left |-> IF state = "None" THEN powerCheck ELSE -1]
                  ELSE hist
    \/ /\ SteadyReading
       /\ hist' = IF OffObserved /\ hist.offs < 4
                  THEN [hist EXCEPT !.offs = @ + 1]
                  ELSE hist
    \/ CountdownDone /\ UNCHANGED hist
    \/ PulseDone /\ UNCHANGED hist
    \/ ManualDone /\ UNCHANGED hist

SpecC4 == InitC4 /\ [][NextC4]_vars

(***************************************************************************)
(* C4: after "stop" and "new", systemOff toggles no earlier than at the    *)
(* third off observation of the new session, whatever powerCheck the       *)
(* stopped session had left.                                               *)
(***************************************************************************)
C4_NoToggleBeforeThirdOff ==
    (hist.left # -1 /\ pc = "pulse") => hist.offs >= 3

\* the stopped session had left powerCheck = 2, and the new session toggles
\* at its third off observation
C4_Witness == hist.left = 2 /\ pc = "pulse" /\ hist.offs = 3

(***************************************************************************)
(* SpecC7 records a run of off observations that starts in a Running,      *)
(* unpaused session with powerCheck = 0 and attemptOn false: run is the    *)
(* number of off observations of the run so far (0 when an on observation  *)
(* or a command has ended it), tog the toggles systemOff started in it.    *)
(***************************************************************************)
InitC7 == Start /\ hist = [run |-> 0, tog |-> 0]

NextC7 ==
    \/ NoInput /\ UNCHANGED hist
    \/ Poll(Lines, ChoiceS5, {}) /\ hist' = [run |-> 0, tog |-> 0]
    \/ /\ SteadyReading
       /\ hist' =
            IF OnObserved THEN [run |-> 0, tog |-> 0]
            ELSE IF ~OffObserved THEN hist
            ELSE IF hist.run \in {1, 2}
                 THEN [run |-> hist.run + 1,
                       tog |-> hist.tog + (IF pc' = "pulse" THEN 1 ELSE 0)]
            ELSE IF Running /\ ~paused /\ powerCheck = 0 /\ ~attemptOn
                 THEN [run |-> 1, tog |-> IF pc' = "pulse" THEN 1 ELSE 0]
            ELSE [run |-> 0, tog |-> 0]
    \/ CountdownDone /\ UNCHANGED hist
    \/ PulseDone /\ UNCHANGED hist
    \/ ManualDone /\ UNCHANGED hist

SpecC7 == InitC7 /\ [][NextC7]_vars

InLoop == pc \in {"input", "sample"}

(***************************************************************************)
(* C7: three off observations in a row, from powerCheck = 0 and attemptOn  *)
(* false in a Running session, take powerCheck to 1, to 2 and back to 0;   *)
(* the first two start no toggle, the third starts the only one and sets   *)
(* attemptOn.                                                              *)
(***************************************************************************)
C7_ThreeOffsToggleOnce ==
    /\ hist.run = 1 =>
          /\ hist.tog = 0 /\ ~attemptOn
          /\ \/ pc = "countdown" /\ powerCheck = 0
             \/ InLoop /\ powerCheck = 1
    /\ hist.run = 2 => hist.tog = 0 /\ ~attemptOn /\ InLoop /\ powerCheck = 2
    /\ hist.run = 3 =>
          /\ hist.tog = 1
          /\ \/ pc = "pulse" /\ powerCheck = 2 /\ ~attemptOn
             \/ InLoop /\ powerCheck = 0 /\ attemptOn

\* the third off observation has been handled to its end
C7_Witness == hist.run = 3 /\ pc = "input" /\ attemptOn /\ powerCheck = 0

(***************************************************************************)
(* SpecC10 records the off observations that follow a toggle of            *)
(* systemOff: aft is their number (-1 when no toggle is followed, or an    *)
(* on observation or a third off observation came), nfail the "did not     *)
(* power on properly" errors they reported, kept whether the first of      *)
(* them left cycle as it was.                                              *)
(***************************************************************************)
InitC10 == Start /\ hist = [aft |-> -1, nfail |-> 0, kept |-> TRUE]

NextC10 ==
    \/ NoInput /\ UNCHANGED hist
    \/ Poll(Lines, ChoiceS5, {}) /\ UNCHANGED hist
    \/ /\ SteadyReading
       /\ hist' =
            IF ~Observes THEN hist
            ELSE IF OffObserved /\ hist.aft \in {0, 1}
                 THEN [aft |-> hist.aft + 1,
                       nfail |-> hist.nfail + Count(MsgFailed)',
                       kept |-> IF hist.aft = 0 THEN cycle' = cycle ELSE hist.kept]
            ELSE [aft |-> -1, nfail |-> 0, kept |-> TRUE]
    \/ CountdownDone /\ UNCHANGED hist
    \/ PulseDone /\ hist' = [aft |-> 0, nfail |-> 0, kept |-> TRUE]
    \/ ManualDone /\ UNCHANGED hist

SpecC10 == InitC10 /\ [][NextC10]_vars

(***************************************************************************)
(* C10: of the off observations that follow a toggle of systemOff, the     *)
(* first reports "did not power on properly", clears attemptOn and leaves  *)
(* cycle; the second reports no such error again.                          *)
(***************************************************************************)
C10_FailedReportedOnce ==
    /\ hist.aft = 1 => hist.nfail = 1 /\ ~attemptOn /\ hist.kept
    /\ hist.aft = 2 => hist.nfail = 1 /\ ~attemptOn /\ hist.kept

\* two off observations have followed the toggle
C10_Witness == hist.aft = 2 /\ pc = "input"

(***************************************************************************)
(* C11: cycle is 1 right after "new"; an on observation that finds         *)
(* attemptOn true adds exactly 1 to it and clears attemptOn; no other      *)
(* step (off observation, pause, resume, stop, toggle, debug, the waits)   *)
(* changes it; so cycle >= 1 in every reachable state.                     *)
(***************************************************************************)
C11_CycleSteps ==
    /\ [](cycle >= 1)
    /\ [][/\ (pc = "menu" /\ Said(MsgCommencing)') => cycle' = 1
          /\ (OnObserved /\ attemptOn) => (cycle' = cycle + 1 /\ ~attemptOn')
          /\ cycle' # cycle => \/ pc = "menu" /\ Said(MsgCommencing)'
                               \/ OnObserved /\ attemptOn]_vars

\* an on observation has confirmed the attempt and started cycle 2
C11_Witness == JustObserved /\ Said(MsgCycle) /\ cycle = 2 /\ ~attemptOn /\ powerStates[0]

(***************************************************************************)
(* SpecC12: readings around the threshold and at both ends of the ADC      *)
(* range, free to change at every reading; the user types "new" and        *)
(* "stop".  hist records, from the readings alone, win: the readings       *)
(* taken since the last commit or "new", and log: the values due in the    *)
(* power states since the last "new", newest first (at most three).        *)
(***************************************************************************)
WindowLen == 5
ReadingsC12 == {0, 99, 100, 1023}

RECURSIVE SumSeq(_)
SumSeq(w) == IF w = <<>> THEN 0 ELSE Head(w) + SumSeq(Tail(w))

\* the arithmetic mean of w is below t
MeanBelow(w, t) == SumSeq(w) < t * Len(w)

InitC12 == Start /\ hist = [win |-> <<>>, log |-> <<>>]

NextC12 ==
    \/ NoInput /\ UNCHANGED hist
    \/ /\ Poll({LineNew, LineStop}, ChoiceS5, {})
       /\ hist' = IF Said(MsgCommencing)' THEN [win |-> <<>>, log |-> <<>>] ELSE hist
    \/ \E r \in ReadingsC12 :
          /\ Sample(r)
          /\ hist' = IF Len(hist.win) = WindowLen - 1
                     THEN [win |-> <<>>,
                           log |-> SubSeq(<<MeanBelow(Append(hist.win, r), pwrThreshold)>>
                                          \o hist.log, 1, IF Len(hist.log) < 3 THEN Len(hist.log) + 1 ELSE 3)]
                     ELSE [hist EXCEPT !.win = Append(@, r)]
    \/ CountdownDone /\ UNCHANGED hist
    \/ PulseDone /\ UNCHANGED hist

SpecC12 == InitC12 /\ [][NextC12]_vars

(***************************************************************************)
(* C12: a debounced state is committed to the power states exactly on      *)
(* every fifth reading since the last commit or "new", and its value is    *)
(* true exactly if the arithmetic mean of those five readings is below     *)
(* the threshold; the truncated average of the buffer gives that answer    *)
(* and no older or initial buffer value enters it.                         *)
(***************************************************************************)
C12_CommitsMeanOfFive ==
    /\ \A i \in 0..2 : powerStates[i] = (i < Len(hist.log) /\ hist.log[i + 1])
    /\ InLoop => /\ inCount = Len(hist.win)
                 /\ \A i \in 1..Len(hist.win) : in[i - 1] = hist.win[i]

\* a window whose mean is 99.8 (truncated average 99) has been committed as on
C12_Witness ==
    /\ JustObserved /\ powerStates[0] /\ hist.log # <<>> /\ hist.log[1]
    /\ in[0] + in[1] + in[2] + in[3] + in[4] = 499

(***************************************************************************)
(* SpecLive: the program under fair ticking.  The Arduino core calls       *)
(* loop() again whenever it returns and every delay() returns, so a step   *)
(* of the program that can be taken is eventually taken; in a prompt of    *)
(* "new" the program waits for the user, who may never answer.  The LED    *)
(* level is steady within a window and the user types any line.            *)
(* hist.failed records that "did not power on properly" was reported in    *)
(* a Running session and that no on observation and no "stop", "pause"     *)
(* or "new" has followed.                                                  *)
(***************************************************************************)
InitLive == Start /\ hist = [failed |-> FALSE]

NextLive ==
    \/ NoInput /\ UNCHANGED hist
    \/ /\ Poll(Lines, ChoiceS5, {})
       /\ hist' = IF Said(MsgStopping)' \/ Said(MsgPaused)' \/ InPrompt \/ InPrompt'
                  THEN [failed |-> FALSE]
                  ELSE hist
    \/ /\ SteadyReading
       /\ hist' = IF OnObserved THEN [failed |-> FALSE]
                  ELSE IF Said(MsgFailed)' /\ Running THEN [failed |-> TRUE]
                  ELSE hist
    \/ CountdownDone /\ UNCHANGED hist
    \/ PulseDone /\ UNCHANGED hist
    \/ ManualDone /\ UNCHANGED hist

SpecLive == InitLive /\ [][NextLive]_vars /\ WF_vars(~InPrompt /\ NextLive)

\* the state right after an on observation
JustOn == JustObserved /\ powerStates[0]

(***************************************************************************)
(* C13: after "did not power on properly" is reported in a Running         *)
(* session, systemOff eventually toggles again and sets attemptOn, unless  *)
(* an on observation comes or "stop", "pause" or "new" is processed        *)
(* first.                                                                  *)
(***************************************************************************)
C13_RetriesAfterFailed ==
    (Said(MsgFailed) /\ Running) ~>
        \/ attemptOn
        \/ JustOn
        \/ Said(MsgStopping) \/ Said(MsgPaused)
        \/ InPrompt \/ Said(MsgCommencing)

\* the attempt after a failed one has been made
C13_Witness == hist.failed /\ Running /\ pc = "input" /\ attemptOn /\ powerCheck = 0

(***************************************************************************)
(* SpecC14 records each pass of loop(): cmd is the command that            *)
(* checkSerialInput processed in it ("none" if no line was read), fifth    *)
(* and due whether, when the pass began, its reading was the fifth of a    *)
(* window and a toggle was due at the next off observation; then r, the    *)
(* reading the pass took (-1 before it is taken), obs whether the pass     *)
(* classified an observation and tog whether systemOff toggled in it.      *)
(***************************************************************************)
PassC14(c) ==
    [cmd |-> c, fifth |-> inCount = 4, due |-> Running /\ powerCheck = 2,
     r |-> -1, obs |-> FALSE, tog |-> FALSE]

InitC14 == Start /\ hist = [cmd |-> "none", fifth |-> FALSE, due |-> FALSE,
                            r |-> 0, obs |-> FALSE, tog |-> FALSE]

NextC14 ==
    \/ NoInput /\ hist' = PassC14("none")
    \/ /\ Poll(Lines, ChoiceS5, {})
       /\ hist' = PassC14(IF Said(MsgStopping)' THEN "stop"
                          ELSE IF Said(MsgCommencing)' THEN "new"
                          ELSE "other")
    \/ \E r \in Readings :
          /\ Sample(r)
          /\ hist' = [hist EXCEPT !.r = r,
                                  !.obs = Observes,
                                  !.tog = pc' = "pulse" \/ Said(MsgToggle)']
    \/ CountdownDone /\ UNCHANGED hist
    \/ PulseDone /\ UNCHANGED hist
    \/ ManualDone /\ UNCHANGED hist

SpecC14 == InitC14 /\ [][NextC14]_vars

(***************************************************************************)
(* C14: in a pass of loop() the command is processed before the reading    *)
(* is taken: after a "stop" in the pass of a window's fifth reading,       *)
(* systemOff does not toggle in that pass; after a "new", the reading of   *)
(* the pass is stored in in[0] of the new session and no observation is    *)
(* classified in the pass.                                                 *)
(***************************************************************************)
C14_CommandBeforeReading ==
    hist.r # -1 =>
        /\ (hist.cmd = "stop" /\ hist.fifth) => (~hist.tog /\ pc = "input" /\ state = "None")
        /\ hist.cmd = "new" =>
              /\ in[0] = hist.r /\ inCount = 1 /\ pc = "input"
              /\ ~hist.obs /\ \A i \in 0..2 : ~powerStates[i]

\* "stop" came in the pass of the off observation at which the toggle was
\* due, and the pass has ended without a toggle
C14_Witness ==
    /\ hist.cmd = "stop" /\ hist.fifth /\ hist.due /\ hist.r = 1023
    /\ ~powerStates[0] /\ powerCheck = 2 /\ pc = "input"

(***************************************************************************)
(* SpecC15: lines arrive on the serial port at any time, also while the    *)
(* program waits in delay(); the port holds up to MaxSerial lines and      *)
(* checkSerialInput takes the first one at the next pass of loop().        *)
(* hist.late is the number of lines on the port that arrived during a      *)
(* wait of systemOff (the countdown or the pulse and settle of a toggle);  *)
(* they are the last lines of the port.                                    *)
(***************************************************************************)
MaxSerial == 2
ArrivingLines == {LineNew, <<"1">>, LineStop, LinePause}

InWait == pc \in {"countdown", "pulse"}

\* the UART receives a line into the port's buffer
Arrive(line) ==
    /\ Len(serial) < MaxSerial
    /\ serial' = Append(serial, line)
    /\ UNCHANGED <<Idle, pc, out>>

\* checkSerialInput with lines on the port
Process ==
    /\ serial # <<>>
    /\ Dispatch(serial)

InitC15 == Start /\ hist = [late |-> 0]

NextC15 ==
    \/ NoInput /\ UNCHANGED hist
    \/ /\ Process
       /\ hist' = [late |-> IF hist.late < Len(serial') THEN hist.late ELSE Len(serial')]
    \/ \E line \in ArrivingLines :
          /\ Arrive(line)
          /\ hist' = [late |-> IF InWait THEN hist.late + 1 ELSE hist.late]
    \/ SteadyReading /\ UNCHANGED hist
    \/ CountdownDone /\ UNCHANGED hist
    \/ PulseDone /\ UNCHANGED hist

SpecC15 == InitC15 /\ [][NextC15]_vars

(***************************************************************************)
(* C15: a "stop" or "pause" that arrives while systemOff waits (the        *)
(* countdown, or the pulse and settle of its toggle) is processed before   *)
(* the wait completes: when a wait ends, no "stop" or "pause" that         *)
(* arrived during it is still on the port.                                 *)
(***************************************************************************)
LateLines == SubSeq(serial, Len(serial) - hist.late + 1, Len(serial))

C15_ProcessedDuringWait ==
    [][(InWait /\ ~InWait') =>
          \A i \in 1..Len(LateLines) :
             toLowerCase(LateLines[i]) \notin {LineStop, LinePause}]_vars

(***************************************************************************)
(* C16: in a Running, unpaused session no value of powerCheck or           *)
(* attemptOn leaves systemOff unable to toggle: every off observation      *)
(* toggles, starts the countdown, or takes powerCheck to 1 or 2, from      *)
(* where the next off observations reach the toggle.                       *)
(***************************************************************************)
C16_OffObservationAdvances ==
    [][(Running /\ ~paused /\ OffObserved) =>
          (pc' = "pulse" \/ pc' = "countdown" \/ powerCheck' \in {1, 2})]_vars

(***************************************************************************)
(* C17: whenever systemOff toggles (the "toggle" command apart), the       *)
(* three power states, i.e. the three most recent observations, are all    *)
(* off.                                                                    *)
(***************************************************************************)
C17_ToggleAfterThreeOffs ==
    pc = "pulse" => \A i \in 0..2 : ~powerStates[i]

\* systemOff toggles in cycle 2: on observations lie before the three off
\* ones
C17_Witness ==
    /\ pc = "pulse" /\ Said(MsgToggle) /\ cycle = 2 /\ powerCheck = 2
    /\ \A i \in 0..2 : ~powerStates[i]

(***************************************************************************)
(* C18: between two passes of loop(), attemptOn implies powerCheck = 0:    *)
(* a pending power-on confirmation never coexists with a power check in    *)
(* progress.                                                               *)
(***************************************************************************)
C18_AttemptMeansNoCheck ==
    (pc = "input" /\ attemptOn) => powerCheck = 0

\* a toggle has set attemptOn and "new" came before the next observation:
\* attemptOn is still set after the first reading of the new session
C18_Witness ==
    /\ pc = "input" /\ attemptOn /\ powerCheck = 0
    /\ inCount = 1 /\ Running /\ in[4] = InitLast

(***************************************************************************)
(* SpecC19 records togs, the toggles systemOff has started since the last  *)
(* "new" (counted up to MaxCycle; the "toggle" command is not counted).    *)
(***************************************************************************)
InitC19 == Start /\ hist = [togs |-> 0]

NextC19 ==
    \/ NoInput /\ UNCHANGED hist
    \/ /\ Poll(Lines, ChoiceS5, {})
       /\ hist' = IF Said(MsgCommencing)' THEN [togs |-> 0] ELSE hist
    \/ /\ SteadyReading
       /\ hist' = IF pc' = "pulse" /\ hist.togs < MaxCycle
                  THEN [togs |-> hist.togs + 1]
                  ELSE hist
    \/ CountdownDone /\ UNCHANGED hist
    \/ PulseDone /\ UNCHANGED hist
    \/ ManualDone /\ UNCHANGED hist

SpecC19 == InitC19 /\ [][NextC19]_vars

(***************************************************************************)
(* C19: cycle - 1 never exceeds the number of toggles systemOff has        *)
(* started since the last "new": an attempt made before "new" is not       *)
(* counted as a cycle of the new session.                                  *)
(***************************************************************************)
C19_CyclesWithinToggles == cycle - 1 <= hist.togs

(***************************************************************************)
(* C20: for every positive delay "new" accepts (a Custom delay of one      *)
(* second included), the countdown of systemOff waits delayTime - 2000     *)
(* milliseconds, a duration that is not negative and does not wrap as the  *)
(* unsigned argument of delay().                                           *)
(***************************************************************************)
C20_CountdownNotNegative ==
    (pc = "countdown" /\ delayTime > 0) =>
        /\ delayTime - Overhead >= 0
        /\ waitMs.hi < Half \div 2

====
